---- MODULE Spec2Model ----
(***************************************************************************)
(* FCS Field Monitor Assistant: the session controller (App), the category *)
(* view (CategoryView), the dashboard gate (Dashboard) and the inference   *)
(* gateway (aiService), as a state machine.                                *)
(*                                                                         *)
(* React state is modelled by variables; every event handler and every     *)
(* settlement of an awaited gateway call is one action.  A handler that    *)
(* awaits a gateway call is split at the await: the part before the await  *)
(* starts a call that remembers the `category` prop captured by the        *)
(* handler's closure (snap), the part after the await is the settlement.   *)
(* Display-only state (title, styling, PDF export) is left out.            *)
(***************************************************************************)
EXTENDS Integers, Sequences, FiniteSets, Bags, TLC

(***************************************************************************)
(* Bounds of the model.                                                    *)
(***************************************************************************)
\* user actions (clicks, key strokes) in one behaviour
MaxSteps == 7
\* largest value Date.now() takes (milliseconds, relative)
MaxClock == 1

(***************************************************************************)
(* types.ts                                                                *)
(***************************************************************************)
RequiredOrder ==
    << "project_details", "env_safety", "survey_inventory", "site_recording",
       "excavations", "finds", "condition_followup" >>

OPTIONAL == "additional_notes"

Required == { RequiredOrder[i] : i \in 1..Len(RequiredOrder) }

CategoryId == Required \cup {OPTIONAL}

CategoryStatus == {"not_started", "in_progress", "complete"}

AppView == {"dashboard", "category", "report"}

\* JavaScript null and undefined
NULL == "null"
UNDEFINED == "undefined"
\* an absent (undefined) string[] value
UndefinedList == << UNDEFINED >>

\* the transcript that signals "no content"
NO_SPEECH == "NO_SPEECH_DETECTED"

\* category data records, abstracted to tokens; "{}" is the empty record
EmptyData == "{}"
DataValues == {EmptyData, "d1"}

\* the categories the worker opens (the required ones share their code)
Worked == {"finds", "site_recording", OPTIONAL}

Transcripts == {"t1", NO_SPEECH}

MissingLists == { <<>>, <<"material">> }

FieldReports == {"R1", "R2"}

\* contents of the text box: empty, blank, and a real note
TextInputs == {"", " ", "a"}

trim(s) == IF s = " " THEN "" ELSE s

(***************************************************************************)
(* aiService: errors, retry wrapper, error classifier, the operations      *)
(***************************************************************************)
\* Errors the backend client can throw: a message and an optional code.
\* words[m] is the set of the keywords the handlers look for that the
\* lower-cased message m contains.
BackendErrors ==
    { [msg |-> "quota exceeded",           code |-> 0],
      [msg |-> "got status: 429",          code |-> 429],
      [msg |-> "too many requests",        code |-> 429],
      [msg |-> "resource_exhausted",       code |-> 0],
      [msg |-> "network error: status 429", code |-> 0],
      [msg |-> "failed to fetch",          code |-> 0],
      [msg |-> "network unreachable",      code |-> 0],
      [msg |-> "internal error",           code |-> 0] }

words(m) ==
    CASE m = "quota exceeded"      -> {"quota"}
      [] m = "got status: 429"     -> {"429"}
      [] m = "resource_exhausted"  -> {"resource_exhausted"}
      [] m = "network error: status 429" -> {"network", "429"}
      [] m = "failed to fetch"     -> {"fetch"}
      [] m = "network unreachable" -> {"network"}
      [] OTHER                     -> {}

includes(m, w) == w \in words(m)

MSG_BUSY == "System Busy (Quota Exceeded)"
MSG_NETWORK == "Network Error"
MSG_FAILED == "AI Processing Failed"

\* a classifier that looks for a network failure first
handleAIError_NetworkFirst(error) ==
    LET isQuota == \/ includes(error.msg, "quota")
                   \/ includes(error.msg, "429")
                   \/ includes(error.msg, "resource_exhausted")
                   \/ includes(error.msg, "resource has been exhausted")
                   \/ error.code = 429
    IN  IF includes(error.msg, "network") \/ includes(error.msg, "fetch")
        THEN MSG_NETWORK
        ELSE IF isQuota THEN MSG_BUSY ELSE MSG_FAILED

\* handleAIError: never returns, always throws one of three messages
handleAIError(error) ==
    LET isQuota == \/ includes(error.msg, "quota")
                   \/ includes(error.msg, "429")
                   \/ includes(error.msg, "resource_exhausted")
                   \/ includes(error.msg, "resource has been exhausted")
                   \/ error.code = 429
    IN  IF isQuota THEN MSG_BUSY
        ELSE IF includes(error.msg, "network") \/ includes(error.msg, "fetch")
             THEN MSG_NETWORK
             ELSE MSG_FAILED

RETRIES == 3

NoBody == [kind |-> "none"]
NoError == [msg |-> "", code |-> 0]

\* One backend attempt either throws an error or returns a response whose
\* text is given by body.
Attempt(Bodies) ==
    { [ok |-> FALSE, error |-> e, body |-> NoBody] : e \in BackendErrors }
    \cup { [ok |-> TRUE, error |-> NoError, body |-> b]
             : b \in Bodies }

isRateLimit(error) ==
    \/ includes(error.msg, "429")
    \/ includes(error.msg, "quota")
    \/ error.code = 429

\* a wait that does not grow
backoff_Constant(i) == 1000

\* the wait after the failed attempt of iteration i: 1000 * Math.pow(2, i)
backoff(i) == 1000 * (2 ^ i)

\* callWithRetry: the loop from iteration i on, over the backend's answers
\* script[i+1], script[i+2], ...; delays are the waits performed so far.
RECURSIVE retryLoop(_, _, _, _)
retryLoop(script, retries, i, delays) ==
    IF i >= retries
    THEN [threw |-> TRUE, error |-> [msg |-> "max retries exceeded", code |-> 0],
          body |-> NoBody, attempts |-> i, delays |-> delays]
    ELSE LET a == script[i + 1] IN
         IF a.ok
         THEN [threw |-> FALSE, error |-> a.error, body |-> a.body,
               attempts |-> i + 1, delays |-> delays]
         ELSE IF isRateLimit(a.error) /\ i < retries - 1
              THEN retryLoop(script, retries, i + 1,
                             Append(delays, backoff(i)))
              ELSE [threw |-> TRUE, error |-> a.error, body |-> NoBody,
                    attempts |-> i + 1, delays |-> delays]

callWithRetry(script, retries) == retryLoop(script, retries, 0, <<>>)

\* What the backend does during one operation: its answer to each of the
\* attempts the operation may make.
Scripts(Bodies) == [1..RETRIES -> Attempt(Bodies)]

\* response.text: empty, not JSON, the JSON null, or a JSON object: one with
\* the fields of the schema, or one that lacks them (UNDEFINED)
B_EMPTY == [kind |-> "empty"]
B_GARBAGE == [kind |-> "garbage"]
B_NULL == [kind |-> "null"]

ExtractBodies ==
    { B_EMPTY, B_GARBAGE, B_NULL }
    \cup { [kind |-> "object", transcript |-> t, updatedData |-> d]
             : t \in Transcripts, d \in DataValues }
    \cup { [kind |-> "object", transcript |-> UNDEFINED, updatedData |-> UNDEFINED] }

\* JSON booleans are "true" / "false"
ValidateBodies ==
    { B_EMPTY, B_GARBAGE, B_NULL }
    \cup { [kind |-> "object", isComplete |-> b, missingInfo |-> m]
             : b \in {"true", "false"}, m \in MissingLists }
    \cup { [kind |-> "object", isComplete |-> UNDEFINED, missingInfo |-> UndefinedList] }

ReportBodies ==
    { B_EMPTY, B_GARBAGE, B_NULL }
    \cup { [kind |-> "object", report |-> r] : r \in FieldReports }

\* the tail of every operation: the empty-text check, JSON.parse, and the
\* catch that hands every error to handleAIError
parseResponse(r, emptyMsg) ==
    IF r.threw
    THEN [threw |-> TRUE, message |-> handleAIError(r.error), value |-> B_NULL]
    ELSE IF r.body.kind = "empty"
         THEN [threw |-> TRUE,
               message |-> handleAIError([msg |-> emptyMsg, code |-> 0]),
               value |-> B_NULL]
         ELSE IF r.body.kind = "garbage"
              THEN [threw |-> TRUE,
                    message |-> handleAIError([msg |-> "unexpected token", code |-> 0]),
                    value |-> B_NULL]
              ELSE [threw |-> FALSE, message |-> "", value |-> r.body]

processVoiceNote(script) ==
    parseResponse(callWithRetry(script, RETRIES), "no response from ai")

processTextNote(script) ==
    parseResponse(callWithRetry(script, RETRIES), "no response from ai")

validateCategory(script) ==
    parseResponse(callWithRetry(script, RETRIES), "validation failed")

generateFinalJobReport(script) ==
    parseResponse(callWithRetry(script, RETRIES), "report generation failed")

\* every result an operation can settle with, over all backend behaviours
VoiceResults == { processVoiceNote(s) : s \in Scripts(ExtractBodies) }
TextResults == { processTextNote(s) : s \in Scripts(ExtractBodies) }
ValidateResults == { validateCategory(s) : s \in Scripts(ValidateBodies) }
ReportResults == { generateFinalJobReport(s) : s \in Scripts(ReportBodies) }

(***************************************************************************)
(* App: the session state                                                  *)
(***************************************************************************)
VARIABLES
    view,               \* App: AppView
    jobState,           \* App: JobState
    activeCategory,     \* App: CategoryId or NULL
    finalReport,        \* App: FieldReport or NULL
    isGeneratingReport, \* App
    cv,                 \* local state of the mounted CategoryView
    calls,              \* bag of the gateway calls awaiting settlement
    clock,              \* the last value Date.now() returned
    nSteps,             \* user actions so far
    last,               \* the last step: handler, category, outcome
    gw                  \* aiService: one operation seen from the inside

vars == << view, jobState, activeCategory, finalReport, isGeneratingReport,
           cv, calls, clock, nSteps, last, gw >>

NewCategory(id) ==
    [id |-> id, status |-> "not_started", notes |-> <<>>,
     data |-> EmptyData, missingInfo |-> <<>>]

INITIAL_JOB_STATE ==
    [isJobComplete |-> FALSE,
     categories |-> [id \in CategoryId |-> NewCategory(id)]]

\* A category as one text note and one accepted finalize leave it.
DoneCategory(id) ==
    [id |-> id, status |-> "complete",
     notes |-> << [id |-> ToString(0), text |-> "t1", timestamp |-> 0] >>,
     data |-> "d1", missingInfo |-> <<>>]

\* A session in which the worker has finished every required category,
\* one after the other (no handler writes isJobComplete).
DONE_JOB_STATE ==
    [isJobComplete |-> FALSE,
     categories |-> [id \in CategoryId |->
                       IF id \in Required
                       THEN DoneCategory(id) ELSE NewCategory(id)]]

\* useState initial values of CategoryView
NewView ==
    [isRecording |-> FALSE, isProcessing |-> FALSE, isValidating |-> FALSE,
     showTextModal |-> FALSE, textInput |-> ""]

\* the record of a step: the handler, its category, how it came out
Step(op, cat, out) == [op |-> op, cat |-> cat, out |-> out]

\* a step of the presentation only: no gateway call, no change of JobState
Ui == Step("ui", "none", "-")

\* no operation of aiService is looked at from the inside
Idle == [op |-> "idle"]

Init ==
    /\ view = "dashboard"
    /\ jobState \in {INITIAL_JOB_STATE, DONE_JOB_STATE}
    /\ activeCategory = NULL
    /\ finalReport = NULL
    /\ isGeneratingReport = FALSE
    /\ cv = NewView
    /\ calls = EmptyBag
    /\ clock = 0
    /\ nSteps = 0
    /\ last = Ui
    /\ gw = Idle

\* The CategoryView is rendered
Mounted == view = "category" /\ activeCategory # NULL

\* its category prop
category == jobState.categories[activeCategory]

\* a gate that opens as soon as one required category is complete
allComplete_Some == \E id \in Required : jobState.categories[id].status = "complete"

\* Dashboard: the gate of the finish button
allComplete == \A id \in Required : jobState.categories[id].status = "complete"

\* a merge in which the existing fields win over the updates
Spread_KeepsOld(a, b) ==
    [f \in DOMAIN a \cup DOMAIN b |-> IF f \in DOMAIN a THEN a[f] ELSE b[f]]

\* { ...a, ...b }
Spread(a, b) ==
    [f \in DOMAIN a \cup DOMAIN b |-> IF f \in DOMAIN b THEN b[f] ELSE a[f]]

\* an update that stores the category alone, without ...prev.categories
handleUpdateCategory_DropsOthers(prev, id, updates) ==
    [prev EXCEPT !.categories =
         [k \in {id} |-> Spread(prev.categories[id], updates)]]

\* an update built on the initial job instead of prev
handleUpdateCategory_FromInitial(prev, id, updates) ==
    LET newCategoryState == Spread(prev.categories[id], updates)
    IN  [prev EXCEPT !.categories =
             [k \in DOMAIN prev.categories \cup {id} |->
                 IF k = id THEN newCategoryState ELSE NewCategory(k)]]

\* setJobState(prev => ({ ...prev, categories: { ...prev.categories,
\* [id]: { ...prev.categories[id], ...updates } } }))
handleUpdateCategory(prev, id, updates) ==
    LET newCategoryState == Spread(prev.categories[id], updates)
    IN  [prev EXCEPT !.categories =
             [k \in DOMAIN prev.categories \cup {id} |->
                 IF k = id THEN newCategoryState ELSE prev.categories[k]]]

\* A call: the operation, the input path, and what the handler's closure
\* holds: the category prop of the render the handler belongs to; live
\* tells whether the CategoryView that started it is still mounted.
NewCall(kind, path, cat) ==
    [kind |-> kind, path |-> path, cat |-> cat,
     snap |-> IF cat \in CategoryId THEN jobState.categories[cat]
              ELSE NewCategory("none"),
     live |-> TRUE]

Started(c) == calls (+) SetToBag({c})

Settled(c) == calls (-) SetToBag({c})

\* the calls of an unmounted CategoryView keep running; its state setters
\* no longer have an effect
Orphan(c) == IF c.kind = "aggregate" THEN c ELSE [c EXCEPT !.live = FALSE]

Orphaned(b) ==
    [d \in { Orphan(c) : c \in BagToSet(b) } |->
        CopiesIn(d, b)
        + (IF d.kind # "aggregate" THEN CopiesIn([d EXCEPT !.live = TRUE], b)
           ELSE 0)]

\* a user action, within the bound
User ==
    /\ nSteps < MaxSteps
    /\ nSteps' = nSteps + 1

(***************************************************************************)
(* App and Dashboard handlers                                              *)
(***************************************************************************)
\* Dashboard category button -> handleSelectCategory; mounts a CategoryView.
\* The "generating" overlay covers the dashboard.
SelectCategory(id) ==
    /\ User
    /\ view = "dashboard"
    /\ ~isGeneratingReport
    /\ activeCategory' = id
    /\ view' = "category"
    /\ cv' = NewView
    /\ last' = Ui
    /\ UNCHANGED << jobState, finalReport, isGeneratingReport, calls, clock,
                    gw >>

\* CategoryView Back button -> onBack; unmounts the CategoryView
Back ==
    /\ User
    /\ Mounted
    /\ ~cv.showTextModal
    /\ view' = "dashboard"
    /\ cv' = NewView
    /\ calls' = Orphaned(calls)
    /\ last' = Ui
    /\ UNCHANGED << jobState, activeCategory, finalReport, isGeneratingReport,
                    clock, gw >>

(***************************************************************************)
(* CategoryView handlers.  The text modal covers the rest of the view.     *)
(***************************************************************************)
\* keyboard button (disabled while processing)
OpenTextModal ==
    /\ User
    /\ Mounted
    /\ ~cv.showTextModal
    /\ ~cv.isProcessing
    /\ cv' = [cv EXCEPT !.showTextModal = TRUE]
    /\ last' = Ui
    /\ UNCHANGED << view, jobState, activeCategory, finalReport,
                    isGeneratingReport, calls, clock, gw >>

\* Cancel and X buttons of the modal
CloseTextModal ==
    /\ User
    /\ Mounted
    /\ cv.showTextModal
    /\ cv' = [cv EXCEPT !.showTextModal = FALSE]
    /\ last' = Ui
    /\ UNCHANGED << view, jobState, activeCategory, finalReport,
                    isGeneratingReport, calls, clock, gw >>

\* textarea onChange
ChangeText(t) ==
    /\ User
    /\ Mounted
    /\ cv.showTextModal
    /\ t # cv.textInput
    /\ cv' = [cv EXCEPT !.textInput = t]
    /\ last' = Ui
    /\ UNCHANGED << view, jobState, activeCategory, finalReport,
                    isGeneratingReport, calls, clock, gw >>

\* Save Note -> handleTextSubmit, up to the await of processTextNote
TextSubmit ==
    /\ User
    /\ Mounted
    /\ cv.showTextModal
    /\ trim(cv.textInput) # ""
    /\ cv' = [cv EXCEPT !.showTextModal = FALSE, !.isProcessing = TRUE]
    /\ calls' = Started(NewCall("extract", "text", activeCategory))
    /\ last' = Step("TextSubmit", activeCategory, "-")
    /\ UNCHANGED << view, jobState, activeCategory, finalReport,
                    isGeneratingReport, clock, gw >>

\* record button pressed (disabled while processing) -> startRecording,
\* the microphone being granted
StartRecording ==
    /\ User
    /\ Mounted
    /\ ~cv.showTextModal
    /\ ~cv.isProcessing
    /\ ~cv.isRecording
    /\ cv' = [cv EXCEPT !.isRecording = TRUE]
    /\ last' = Ui
    /\ UNCHANGED << view, jobState, activeCategory, finalReport,
                    isGeneratingReport, calls, clock, gw >>

\* record button released -> stopRecording, onstop, handleAudioProcess up
\* to the await of processVoiceNote
StopRecording ==
    /\ User
    /\ Mounted
    /\ ~cv.showTextModal
    /\ ~cv.isProcessing
    /\ cv.isRecording
    /\ cv' = [cv EXCEPT !.isRecording = FALSE, !.isProcessing = TRUE]
    /\ calls' = Started(NewCall("extract", "voice", activeCategory))
    /\ last' = Step("StopRecording", activeCategory, "-")
    /\ UNCHANGED << view, jobState, activeCategory, finalReport,
                    isGeneratingReport, clock, gw >>

\* addNote, called with the category captured by the handler's closure;
\* t is what Date.now() returns (its two readings in addNote agree)
addNote(prev, cat, text, updatedData, t) ==
    LET newNote == [id |-> ToString(t), text |-> text, timestamp |-> t]
    IN  handleUpdateCategory(prev, cat.id,
            [notes |-> Append(cat.notes, newNote),
             data |-> updatedData,
             status |-> "in_progress"])

\* a delete that resets the status whenever the list becomes empty
deleteUpdate_AlwaysResets(cat, noteId) ==
    LET updatedNotes == SelectSeq(cat.notes, LAMBDA note : note.id # noteId)
    IN  [cat EXCEPT !.notes = updatedNotes,
                    !.status = IF Len(updatedNotes) = 0
                               THEN "not_started" ELSE cat.status]

\* a delete that also clears the list of missing items
deleteUpdate_ClearsMissing(cat, noteId) ==
    LET updatedNotes == SelectSeq(cat.notes, LAMBDA note : note.id # noteId)
    IN  [cat EXCEPT !.notes = updatedNotes,
                    !.missingInfo = << >>,
                    !.status = IF Len(updatedNotes) = 0 /\ cat.status # "complete"
                               THEN "not_started" ELSE cat.status]

\* the update handleDeleteNote passes to onUpdate (the user confirming)
deleteUpdate(cat, noteId) ==
    LET updatedNotes == SelectSeq(cat.notes, LAMBDA note : note.id # noteId)
    IN  [cat EXCEPT !.notes = updatedNotes,
                    !.status = IF Len(updatedNotes) = 0 /\ cat.status # "complete"
                               THEN "not_started" ELSE cat.status]

\* trash button of a note -> handleDeleteNote
DeleteNote(noteId) ==
    /\ User
    /\ Mounted
    /\ ~cv.showTextModal
    /\ \E i \in 1..Len(category.notes) : category.notes[i].id = noteId
    /\ jobState' = handleUpdateCategory(jobState, category.id,
                                        deleteUpdate(category, noteId))
    /\ last' = Step("DeleteNote", activeCategory, noteId)
    /\ UNCHANGED << view, activeCategory, finalReport, isGeneratingReport,
                    cv, calls, clock, gw >>

\* a finalize button that is disabled only while a call is pending
finalizeDisabled_IgnoresNotes(cat, st) ==
    \/ st.isProcessing
    \/ st.isValidating

\* the disabled attribute of the finalize button
finalizeDisabled(cat, st) ==
    \/ (cat.id # OPTIONAL /\ Len(cat.notes) = 0)
    \/ st.isProcessing
    \/ st.isValidating

\* finalize button -> handleFinalize, up to the await of validateCategory
Finalize ==
    /\ User
    /\ Mounted
    /\ ~cv.showTextModal
    /\ ~finalizeDisabled(category, cv)
    /\ cv' = [cv EXCEPT !.isValidating = TRUE]
    /\ calls' = Started(NewCall("validate", "-", activeCategory))
    /\ last' = Step("Finalize", activeCategory, "-")
    /\ UNCHANGED << view, jobState, activeCategory, finalReport,
                    isGeneratingReport, clock, gw >>

\* how handleAudioProcess / handleTextSubmit go on after the await:
\* "failed" (the operation threw, or reading result.transcript did),
\* "no_content" (the sentinel, looked for on the voice path only), "added"
extractOutcome(c, r) ==
    IF r.threw \/ r.value.kind = "null" THEN "failed"
    ELSE IF c.path = "voice" /\ r.value.transcript = NO_SPEECH THEN "no_content"
    ELSE "added"

\* a catch block that still records the attempt on the category
afterExtract_MarksFailure(prev, c, r, t) ==
    IF extractOutcome(c, r) = "added"
    THEN addNote(prev, c.snap, r.value.transcript, r.value.updatedData, t)
    ELSE IF extractOutcome(c, r) = "failed"
         THEN handleUpdateCategory(prev, c.snap.id, [status |-> "in_progress"])
         ELSE prev

\* JobState after the rest of handleAudioProcess / handleTextSubmit
afterExtract(prev, c, r, t) ==
    IF extractOutcome(c, r) = "added"
    THEN addNote(prev, c.snap, r.value.transcript, r.value.updatedData, t)
    ELSE prev

\* handlers that clear the flag at the end of the try block only
viewAfterExtract_NoFinally(st, c, r) ==
    IF c.live /\ extractOutcome(c, r) = "added"
    THEN [st EXCEPT !.isProcessing = FALSE,
                    !.textInput = IF c.path = "text" THEN "" ELSE @]
    ELSE st

\* the CategoryView's state after the rest of handleAudioProcess /
\* handleTextSubmit: setTextInput("") after addNote on the text path, and
\* the finally block; the setters of an unmounted view do nothing
viewAfterExtract(st, c, r) ==
    IF c.live
    THEN [st EXCEPT !.isProcessing = FALSE,
                    !.textInput = IF extractOutcome(c, r) = "added"
                                     /\ c.path = "text"
                                  THEN "" ELSE @]
    ELSE st

\* settlement of processVoiceNote / processTextNote and the rest of
\* handleAudioProcess / handleTextSubmit
ExtractDone(c, r, t) ==
    LET added == extractOutcome(c, r) = "added" IN
    /\ BagIn(c, calls)
    /\ c.kind = "extract"
    /\ r \in (IF c.path = "voice" THEN VoiceResults ELSE TextResults)
    /\ added \/ t = clock
    /\ jobState' = afterExtract(jobState, c, r, t)
    /\ clock' = t
    /\ cv' = viewAfterExtract(cv, c, r)
    /\ calls' = Settled(c)
    /\ last' = Step("ExtractDone", c.cat, extractOutcome(c, r))
    /\ UNCHANGED << view, activeCategory, finalReport, isGeneratingReport,
                    nSteps, gw >>

\* how handleFinalize goes on after the await: "failed" (the operation
\* threw, or reading result.isComplete did), "complete", "incomplete"
validateOutcome(r) ==
    IF r.threw \/ r.value.kind = "null" THEN "failed"
    ELSE IF r.value.isComplete = "true" THEN "complete"
    ELSE "incomplete"

\* a finalize whose negative verdict puts the category back to in_progress
afterValidate_Reopens(prev, c, r) ==
    IF validateOutcome(r) = "failed" THEN prev
    ELSE IF validateOutcome(r) = "complete"
         THEN handleUpdateCategory(prev, c.snap.id,
                  [status |-> "complete", missingInfo |-> <<>>])
         ELSE handleUpdateCategory(prev, c.snap.id,
                  [status |-> "in_progress",
                   missingInfo |-> r.value.missingInfo])

\* a finalize that adds the verdict's missing items to the ones already shown
afterValidate_Accumulates(prev, c, r) ==
    IF validateOutcome(r) = "failed" THEN prev
    ELSE IF validateOutcome(r) = "complete"
         THEN handleUpdateCategory(prev, c.snap.id,
                  [status |-> "complete", missingInfo |-> <<>>])
         ELSE handleUpdateCategory(prev, c.snap.id,
                  [missingInfo |-> prev.categories[c.snap.id].missingInfo
                                   \o r.value.missingInfo])

\* JobState after the rest of handleFinalize
afterValidate(prev, c, r) ==
    IF validateOutcome(r) = "failed" THEN prev
    ELSE IF validateOutcome(r) = "complete"
         THEN handleUpdateCategory(prev, c.snap.id,
                  [status |-> "complete", missingInfo |-> <<>>])
         ELSE handleUpdateCategory(prev, c.snap.id,
                  [missingInfo |-> r.value.missingInfo])

\* settlement of validateCategory and the rest of handleFinalize; on
\* completion onBack() sets the view to the dashboard
ValidateDone(c, r) ==
    LET complete == validateOutcome(r) = "complete" IN
    /\ BagIn(c, calls)
    /\ c.kind = "validate"
    /\ r \in ValidateResults
    /\ jobState' = afterValidate(jobState, c, r)
    /\ view' = IF complete THEN "dashboard" ELSE view
    /\ IF complete /\ view = "category"
       THEN /\ cv' = NewView
            /\ calls' = Orphaned(Settled(c))
       ELSE /\ cv' = IF c.live THEN [cv EXCEPT !.isValidating = FALSE] ELSE cv
            /\ calls' = Settled(c)
    /\ last' = Step("ValidateDone", c.cat, validateOutcome(r))
    /\ UNCHANGED << activeCategory, finalReport, isGeneratingReport,
                    clock, nSteps, gw >>

\* finish button (disabled unless allComplete) -> handleFinishJob, up to
\* the await of generateFinalJobReport
FinishJob ==
    /\ User
    /\ view = "dashboard"
    /\ ~isGeneratingReport
    /\ allComplete
    /\ isGeneratingReport' = TRUE
    /\ calls' = Started(NewCall("aggregate", "-", "none"))
    /\ last' = Step("FinishJob", "none", "-")
    /\ UNCHANGED << view, jobState, activeCategory, finalReport, cv, clock,
                    gw >>

\* a handler that forgets setFinalReport
storedReport_Forgotten(prev, r) == prev

\* finalReport after the rest of handleFinishJob
storedReport(prev, r) ==
    IF r.threw THEN prev
    ELSE IF r.value.kind = "null" THEN NULL
    ELSE r.value.report

\* a handler that shows the report view from its finally block
viewAfterAggregate_Always(v, r) == "report"

\* view after the rest of handleFinishJob
viewAfterAggregate(v, r) == IF r.threw THEN v ELSE "report"

\* settlement of generateFinalJobReport and the rest of handleFinishJob
AggregateDone(c, r) ==
    /\ BagIn(c, calls)
    /\ c.kind = "aggregate"
    /\ r \in ReportResults
    /\ finalReport' = storedReport(finalReport, r)
    /\ view' = viewAfterAggregate(view, r)
    /\ IF ~r.threw /\ view = "category"
       THEN /\ cv' = NewView
            /\ calls' = Orphaned(Settled(c))
       ELSE /\ cv' = cv
            /\ calls' = Settled(c)
    /\ isGeneratingReport' = FALSE
    /\ last' = Step("AggregateDone", "none",
                     IF r.threw THEN "failed" ELSE "report")
    /\ UNCHANGED << jobState, activeCategory, clock, nSteps, gw >>

\* a reset that keeps the categories
Reset_KeepsJobState ==
    /\ User
    /\ view = "report"
    /\ finalReport # NULL
    /\ jobState' = jobState
    /\ finalReport' = NULL
    /\ view' = "dashboard"
    /\ last' = Step("Reset", "none", "-")
    /\ UNCHANGED << activeCategory, isGeneratingReport, cv, calls, clock, gw >>

\* ReportDisplay Back button -> handleReset
Reset ==
    /\ User
    /\ view = "report"
    /\ finalReport # NULL
    /\ jobState' = INITIAL_JOB_STATE
    /\ finalReport' = NULL
    /\ view' = "dashboard"
    /\ last' = Step("Reset", "none", "-")
    /\ UNCHANGED << activeCategory, isGeneratingReport, cv, calls, clock, gw >>

Next ==
    \/ \E id \in Worked : SelectCategory(id)
    \/ Back
    \/ OpenTextModal
    \/ CloseTextModal
    \/ \E t \in TextInputs : ChangeText(t)
    \/ TextSubmit
    \/ StartRecording
    \/ StopRecording
    \/ \E t \in 0..MaxClock : DeleteNote(ToString(t))
    \/ Finalize
    \/ \E c \in BagToSet(calls), t \in clock..MaxClock :
         \E r \in VoiceResults \cup TextResults : ExtractDone(c, r, t)
    \/ \E c \in BagToSet(calls), r \in ValidateResults : ValidateDone(c, r)
    \/ FinishJob
    \/ \E c \in BagToSet(calls), r \in ReportResults : AggregateDone(c, r)
    \/ Reset

Spec == Init /\ [][Next]_vars

\* Every backend attempt settles and callWithRetry makes at most RETRIES of
\* them, with finite waits in between: a call in flight settles.
Settles ==
    /\ WF_vars(\E c \in BagToSet(calls), t \in clock..MaxClock :
                 \E r \in VoiceResults \cup TextResults : ExtractDone(c, r, t))
    /\ WF_vars(\E c \in BagToSet(calls), r \in ValidateResults :
                 ValidateDone(c, r))
    /\ WF_vars(\E c \in BagToSet(calls), r \in ReportResults :
                 AggregateDone(c, r))

SpecLive == Init /\ [][Next]_vars /\ Settles

TypeOK ==
    /\ view \in AppView
    /\ activeCategory \in CategoryId \cup {NULL}
    /\ finalReport \in FieldReports \cup {NULL}
    /\ isGeneratingReport \in BOOLEAN
    /\ DOMAIN jobState.categories = CategoryId
    /\ nSteps \in 0..MaxSteps
    /\ clock \in 0..MaxClock

(***************************************************************************)
(* aiService alone: one operation run against a backend whose answer to    *)
(* each attempt is given by a script.                                      *)
(***************************************************************************)
GatewayOps == {"voice", "text", "validate", "aggregate"}

\* the responses the backend can give to the request of an operation
BodiesOf(op) ==
    CASE op \in {"voice", "text"} -> ExtractBodies
      [] op = "validate"          -> ValidateBodies
      [] op = "aggregate"         -> ReportBodies

\* the exported operation: what it returns or throws
operation(op, script) ==
    CASE op = "voice"     -> processVoiceNote(script)
      [] op = "text"      -> processTextNote(script)
      [] op = "validate"  -> validateCategory(script)
      [] op = "aggregate" -> generateFinalJobReport(script)

\* an operation about to be called: nothing attempted, nothing returned
NotRun ==
    [threw |-> FALSE, error |-> NoError, body |-> NoBody,
     attempts |-> 0, delays |-> << >>]

NoOutcome == [threw |-> FALSE, message |-> "", value |-> NoBody]

\* import.meta.env.VITE_GEMINI_API_KEY: set, or missing (undefined or empty)
ApiKeys == {"key", ""}

\* the test of the module's start: !apiKey
missing(apiKey) == apiKey = ""

\* new GoogleGenAI({ apiKey }): with a key the client is built; without one
\* the library either builds a client all the same or throws, and the module
\* does not load
Clients(apiKey) == IF missing(apiKey) THEN {"client", "none"} ELSE {"client"}

\* the backend's answers to an operation: without a key it rejects every
\* attempt
ScriptsFor(op, apiKey) ==
    IF missing(apiKey) THEN Scripts({}) ELSE Scripts(BodiesOf(op))

Pending(op, script, apiKey, ai) ==
    [op |-> op, script |-> script, apiKey |-> apiKey, ai |-> ai,
     settled |-> FALSE, run |-> NotRun, out |-> NoOutcome]

InitGateway ==
    /\ view = "dashboard"
    /\ jobState = INITIAL_JOB_STATE
    /\ activeCategory = NULL
    /\ finalReport = NULL
    /\ isGeneratingReport = FALSE
    /\ cv = NewView
    /\ calls = EmptyBag
    /\ clock = 0
    /\ nSteps = 0
    /\ last = Ui
    /\ \E op \in GatewayOps, apiKey \in ApiKeys :
          \E script \in ScriptsFor(op, apiKey), ai \in Clients(apiKey) :
              gw = Pending(op, script, apiKey, ai)

\* the operation runs to its end: run is what callWithRetry did, out is
\* what the operation returned or threw.  Nothing in it looks at apiKey.
Invoke ==
    /\ gw.op \in GatewayOps
    /\ gw.ai = "client"
    /\ ~gw.settled
    /\ gw' = [gw EXCEPT !.settled = TRUE,
                        !.run = callWithRetry(gw.script, RETRIES),
                        !.out = operation(gw.op, gw.script)]
    /\ UNCHANGED << view, jobState, activeCategory, finalReport,
                    isGeneratingReport, cv, calls, clock, nSteps, last >>

NextGateway == Invoke

SpecGateway == InitGateway /\ [][NextGateway]_vars

(***************************************************************************)
(* CategoryView's delete handler alone: handleDeleteNote called with any   *)
(* note id on a category as the session can hold it.                       *)
(***************************************************************************)
NoteIds == { ToString(t) : t \in 0..MaxClock }

NoteAt(t) == [id |-> ToString(t), text |-> "t1", timestamp |-> t]

\* note lists of up to two notes, with distinct ids, oldest first
StoredNotes ==
    { << >> }
    \cup { << NoteAt(t) >> : t \in 0..MaxClock }
    \cup { << NoteAt(p[1]), NoteAt(p[2]) >> :
             p \in { q \in (0..MaxClock) \X (0..MaxClock) : q[1] < q[2] } }

\* a category as the handlers leave it: not_started has no notes,
\* in_progress has some
StoredCategories(id) ==
    { x \in [id : {id}, status : CategoryStatus, notes : StoredNotes,
             data : DataValues, missingInfo : MissingLists] :
        /\ x.status = "not_started" => x.notes = << >>
        /\ x.status = "in_progress" => x.notes # << >> }

InitNoteStore ==
    /\ view = "category"
    /\ activeCategory \in Worked
    /\ \E x \in StoredCategories(activeCategory) :
          jobState = [INITIAL_JOB_STATE EXCEPT !.categories[activeCategory] = x]
    /\ finalReport = NULL
    /\ isGeneratingReport = FALSE
    /\ cv = NewView
    /\ calls = EmptyBag
    /\ clock = MaxClock
    /\ nSteps = 0
    /\ last = Ui
    /\ gw = Idle

\* what handleDeleteNote tells its caller: it has a single path, which
\* returns nothing and raises nothing, whether or not the id is in the list
deleteReport(cat, noteId) == "ok"

\* handleDeleteNote(noteId), the user confirming
handleDeleteNote(noteId) ==
    /\ Mounted
    /\ jobState' = handleUpdateCategory(jobState, category.id,
                                        deleteUpdate(category, noteId))
    /\ last' = Step("handleDeleteNote", activeCategory,
                    deleteReport(category, noteId))
    /\ UNCHANGED << view, activeCategory, finalReport, isGeneratingReport,
                    cv, calls, clock, nSteps, gw >>

NextNoteStore == \E noteId \in NoteIds : handleDeleteNote(noteId)

SpecNoteStore == InitNoteStore /\ [][NextNoteStore]_vars

(***************************************************************************)
(* Properties                                                              *)
(***************************************************************************)
cat_(id) == jobState.categories[id]
catAfter(id) == jobState'.categories[id]

\* the extract and validate calls in flight for category id
InFlight(id) == { c \in BagToSet(calls) : c.cat = id /\ c.kind # "aggregate" }

Has(notes, n) == \E i \in 1..Len(notes) : notes[i] = n

ExtractResults == VoiceResults \cup TextResults

\* C1: in every reachable state, a category whose status is complete has
\* an empty missingInfo.
C1_CompleteHasNoMissingInfo ==
    \A id \in CategoryId :
        cat_(id).status = "complete" => cat_(id).missingInfo = <<>>

\* C2: isJobComplete mirrors allComplete and is recomputed by every
\* update: a step that makes the last required category complete leaves
\* isJobComplete true.
C2_IsJobCompleteRecomputed ==
    [][(~allComplete /\ allComplete') => jobState'.isJobComplete]_vars

\* C3: for every category, at most one extract or validate call is in
\* flight at any time.
C3_OneCallPerCategory ==
    \A id \in CategoryId :
        \A c \in InFlight(id) : InFlight(id) = {c} /\ CopiesIn(c, calls) = 1

\* C4: a note leaves its category's list only in a step that deletes that
\* note's id in that category, or in a reset; until then it stays in the
\* list with the same text and timestamp.
C4_NotesLeaveOnlyByDelete ==
    [][\A id \in CategoryId : \A i \in 1..Len(cat_(id).notes) :
          LET n == cat_(id).notes[i] IN
            \/ Has(catAfter(id).notes, n)
            \/ last' = Step("DeleteNote", id, n.id)
            \/ last'.op = "Reset"]_vars

\* C5: a successful append (the extraction returned a transcript other
\* than the sentinel) leaves the category with the notes it had, in their
\* order, followed by exactly one new note, with the returned data and
\* with status in_progress.
C5_AppendAddsOneNote ==
    [][\A c \in BagToSet(calls), r \in ExtractResults, t \in 0..MaxClock :
          ( /\ ExtractDone(c, r, t)
            /\ ~r.threw
            /\ r.value.kind = "object"
            /\ r.value.transcript \in Transcripts \ {NO_SPEECH} )
          => LET b == cat_(c.cat)
                 a == catAfter(c.cat)
             IN  /\ Len(a.notes) = Len(b.notes) + 1
                 /\ SubSeq(a.notes, 1, Len(b.notes)) = b.notes
                 /\ a.notes[Len(a.notes)].text = r.value.transcript
                 /\ a.data = r.value.updatedData
                 /\ a.status = "in_progress"]_vars

\* C6: on both input paths, an extraction that returns the no-content
\* sentinel creates no note and leaves status and notes unchanged; any
\* other returned transcript moves the category to in_progress.
C6_NoContentCreatesNoNote ==
    [][\A c \in BagToSet(calls), r \in ExtractResults, t \in 0..MaxClock :
          ( /\ ExtractDone(c, r, t)
            /\ ~r.threw
            /\ r.value.kind = "object"
            /\ r.value.transcript \in Transcripts )
          => IF r.value.transcript = NO_SPEECH
             THEN /\ catAfter(c.cat).notes = cat_(c.cat).notes
                  /\ catAfter(c.cat).status = cat_(c.cat).status
             ELSE catAfter(c.cat).status = "in_progress"]_vars

\* C7: when an extract call fails (the operation throws: rate limit
\* exhausted, network, anything else), no note is appended and every
\* category keeps its notes, data, status and missingInfo.
C7_ExtractFailureIsAtomic ==
    [][\A c \in BagToSet(calls), r \in ExtractResults, t \in 0..MaxClock :
          (ExtractDone(c, r, t) /\ r.threw) => jobState' = jobState]_vars

\* C7 witness: an extract call for a category that holds a note has failed
C7_Witness ==
    /\ last.op = "ExtractDone"
    /\ last.out = "failed"
    /\ last.cat \in CategoryId
    /\ Len(cat_(last.cat).notes) > 0

C9_NoDirectComplete ==
    [][\A id \in Required :
          /\ ~(cat_(id).status = "not_started" /\ catAfter(id).status = "complete")
          /\ (cat_(id).status # "complete" /\ catAfter(id).status = "complete")
                => Len(catAfter(id).notes) > 0]_vars

\* C10: after a finalize whose validation returns isComplete = true the
\* category is complete with empty missingInfo; after one that returns
\* isComplete = false it is in_progress with the returned missingInfo; in
\* both cases notes and data are unchanged.
C10_FinalizeOutcome ==
    [][\A c \in BagToSet(calls), r \in ValidateResults :
          ( /\ ValidateDone(c, r)
            /\ ~r.threw
            /\ r.value.kind = "object"
            /\ r.value.isComplete \in {"true", "false"} )
          => LET b == cat_(c.cat)
                 a == catAfter(c.cat)
             IN  /\ a.notes = b.notes
                 /\ a.data = b.data
                 /\ IF r.value.isComplete = "true"
                    THEN a.status = "complete" /\ a.missingInfo = <<>>
                    ELSE /\ a.status = "in_progress"
                         /\ a.missingInfo = r.value.missingInfo]_vars

\* C11: a delete that empties the note list of a complete category leaves
\* it complete; one that empties the list of an in_progress category sets
\* it to not_started; a delete after which notes remain leaves the status
\* as it was.  The notes left are those with another id, in their order.
C11_DeleteStatus ==
    [][\A t \in 0..MaxClock :
          DeleteNote(ToString(t))
          => LET b == cat_(activeCategory)
                 a == catAfter(activeCategory)
             IN  /\ a.notes = SelectSeq(b.notes,
                                        LAMBDA n : n.id # ToString(t))
                 /\ (a.notes = <<>> /\ b.status = "complete")
                       => a.status = "complete"
                 /\ (a.notes = <<>> /\ b.status = "in_progress")
                       => a.status = "not_started"
                 /\ a.notes # <<>> => a.status = b.status]_vars

\* C11 witness: the last note of a complete category has been deleted and
\* the category is still complete
C11_Witness ==
    /\ last.op = "DeleteNote"
    /\ last.cat \in Required
    /\ cat_(last.cat).notes = <<>>
    /\ cat_(last.cat).status = "complete"

\* C12: in every reachable state a category that is not_started has no
\* note and the default (empty) data.
C12_NotStartedIsEmpty ==
    \A id \in CategoryId :
        cat_(id).status = "not_started"
        => cat_(id).notes = <<>> /\ cat_(id).data = EmptyData

\* C13: a category goes from complete to in_progress only in the step in
\* which an extraction for it adds a note; no delete and no finalize step
\* does it.
C13_ReopenOnlyByAppend ==
    [][\A id \in CategoryId :
          (cat_(id).status = "complete" /\ catAfter(id).status = "in_progress")
          => /\ last' = Step("ExtractDone", id, "added")
             /\ catAfter(id).notes # <<>>]_vars

\* C13 witness: a category of a session in which every required category
\* was complete has been reopened by a second note
C13_Witness ==
    \E id \in Required :
        /\ last = Step("ExtractDone", id, "added")
        /\ cat_(id).status = "in_progress"
        /\ Len(cat_(id).notes) = 2
        /\ \A o \in Required \ {id} : cat_(o).status = "complete"

\* the backend errors that are rate-limit errors: the quota / 429 /
\* resource-exhausted ones, reported to the user as "system busy"
RateLimitErrors == { e \in BackendErrors : handleAIError(e) = MSG_BUSY }

\* the backend errors that are network failures
NetworkErrors ==
    { e \in BackendErrors \ RateLimitErrors :
        includes(e.msg, "network") \/ includes(e.msg, "fetch") }

\* attempt i of the script fails with a rate-limit error
RateLimited(script, i) == ~script[i].ok /\ script[i].error \in RateLimitErrors

\* C14: every operation makes at most 3 backend attempts, and when the
\* backend fails with a rate-limit error on the first two attempts and
\* answers the third, the operation returns the third attempt's result.
C14_RetryLaw ==
    (gw.op \in GatewayOps /\ gw.settled)
    => /\ gw.run.attempts <= RETRIES
       /\ ( /\ RateLimited(gw.script, 1)
            /\ RateLimited(gw.script, 2)
            /\ gw.script[3].ok
            /\ gw.script[3].body.kind = "object" )
          => /\ gw.run.attempts = 3
             /\ ~gw.out.threw
             /\ gw.out.value = gw.script[3].body

\* C15: an operation that ends on a rate-limit error has made all 3
\* attempts and reports "system busy", and "system busy" is reported only
\* then; an operation whose first attempt fails with any other error made
\* that attempt only and reports a network error for a network failure and
\* a generic processing failure otherwise.
C15_ErrorSurfacing ==
    (gw.op \in GatewayOps /\ gw.settled)
    => /\ (gw.run.threw /\ gw.run.error \in RateLimitErrors)
            => gw.run.attempts = RETRIES /\ gw.out.message = MSG_BUSY
       /\ (gw.out.threw /\ gw.out.message = MSG_BUSY)
            => gw.run.attempts = RETRIES
       /\ (~gw.script[1].ok /\ gw.script[1].error \notin RateLimitErrors)
            => /\ gw.run.attempts = 1
               /\ gw.out.threw
               /\ gw.out.message = IF gw.script[1].error \in NetworkErrors
                                   THEN MSG_NETWORK ELSE MSG_FAILED

\* a value handed to a handler that is not an object with both fields
MalformedExtract(v) ==
    v.kind # "object" \/ v.transcript = UNDEFINED \/ v.updatedData = UNDEFINED

MalformedValidate(v) ==
    v.kind # "object" \/ v.isComplete = UNDEFINED \/ v.missingInfo = UndefinedList

\* C16: when the response of an extract or validate call is empty, not
\* parseable or lacks a required field, the operation fails (it throws
\* rather than returning the value), no note is created and no field of
\* any category changes.
C16_MalformedResponseFails ==
    [][/\ \A c \in BagToSet(calls), r \in ExtractResults, t \in 0..MaxClock :
            (ExtractDone(c, r, t) /\ MalformedExtract(r.value))
            => r.threw /\ jobState' = jobState
       /\ \A c \in BagToSet(calls), r \in ValidateResults :
            (ValidateDone(c, r) /\ MalformedValidate(r.value))
            => r.threw /\ jobState' = jobState]_vars

\* C17: an aggregate call is started only in a state in which every
\* required category is complete.
C17_FinishOnlyWhenAllComplete ==
    [][(\E c \in BagToSet(calls') :
           c.kind = "aggregate" /\ CopiesIn(c, calls') > CopiesIn(c, calls))
       => \A id \in Required : cat_(id).status = "complete"]_vars

\* C17 witness: the aggregate call has just been started
C17_Witness ==
    /\ last.op = "FinishJob"
    /\ \E c \in BagToSet(calls) : c.kind = "aggregate"
    /\ isGeneratingReport
    /\ \A id \in Required : cat_(id).status = "complete"

\* C18: when the aggregation returns report R, finishJob stores R and
\* shows the report view; whether it succeeds or fails, the settlement of
\* finishJob leaves JobState as it was.
C18_FinishStoresReport ==
    [][\A c \in BagToSet(calls), r \in ReportResults :
          AggregateDone(c, r)
          => /\ jobState' = jobState
             /\ (~r.threw /\ r.value.kind = "object")
                   => finalReport' = r.value.report /\ view' = "report"]_vars

\* C18 witness: a report is stored and shown, the seven required
\* categories being complete
C18_Witness ==
    /\ last = Step("AggregateDone", "none", "report")
    /\ finalReport \in FieldReports
    /\ view = "report"
    /\ \A id \in Required : cat_(id).status = "complete"

\* C19: a validate call that fails leaves every category as it was; an
\* aggregate call that fails leaves the stored report, the view and
\* JobState as they were.
C19_FailureChangesNothing ==
    [][/\ \A c \in BagToSet(calls), r \in ValidateResults :
            (ValidateDone(c, r) /\ r.threw) => jobState' = jobState
       /\ \A c \in BagToSet(calls), r \in ReportResults :
            (AggregateDone(c, r) /\ r.threw)
            => /\ finalReport' = finalReport
               /\ view' = view
               /\ jobState' = jobState]_vars

\* C19 witness: the aggregation has failed; there is no report and the
\* dashboard is still shown
C19_Witness ==
    /\ last = Step("AggregateDone", "none", "failed")
    /\ finalReport = NULL
    /\ view = "dashboard"
    /\ ~isGeneratingReport

\* C20: right after a reset there is no report, the view is the
\* dashboard and JobState is the default: eight categories, each
\* not_started with no notes, empty data and empty missingInfo, and
\* isJobComplete false.
C20_ResetRestoresDefault ==
    [][Reset => /\ finalReport' = NULL
                /\ view' = "dashboard"
                /\ ~jobState'.isJobComplete
                /\ DOMAIN jobState'.categories = CategoryId
                /\ \A id \in CategoryId :
                      catAfter(id) = [id |-> id, status |-> "not_started",
                                      notes |-> <<>>, data |-> EmptyData,
                                      missingInfo |-> <<>>]]_vars

\* C20 witness: a session with finished categories has been reset
C20_Witness ==
    /\ last.op = "Reset"
    /\ jobState = INITIAL_JOB_STATE
    /\ finalReport = NULL
    /\ view = "dashboard"

\* C21: in every reachable state the categories of JobState are exactly
\* the eight category identifiers, and the category stored under a key
\* has that key as its id.
C21_CategoriesTotalMap ==
    /\ DOMAIN jobState.categories = CategoryId
    /\ Cardinality(CategoryId) = 8
    /\ \A k \in DOMAIN jobState.categories : jobState.categories[k].id = k

\* C21 witness: a note has been deleted (the update carried the whole
\* category, its id included) from a category that held two
C21_Witness ==
    /\ last.op = "DeleteNote"
    /\ last.cat \in CategoryId
    /\ Len(cat_(last.cat).notes) = 1

\* the fields of a category that differ between two job states
Changed(prev, next, id) ==
    { f \in DOMAIN prev.categories[id] :
        next.categories[id][f] # prev.categories[id][f] }

\* C22: an update of a category merges into it: the fields it names have
\* the given values afterwards, every other field of that category and
\* every other category are as before.  Appending a note names notes,
\* data and status (in_progress); an accepted finalize names status
\* (complete) and missingInfo (empty); a rejected one names missingInfo;
\* a delete leaves id, data and missingInfo as they were.
C22_UpdateMerges ==
    [][\A id \in CategoryId :
          /\ DOMAIN catAfter(id) = DOMAIN cat_(id)
          /\ last' = Step("ExtractDone", id, "added")
                => /\ Changed(jobState, jobState', id) \subseteq
                         {"notes", "data", "status"}
                   /\ catAfter(id).status = "in_progress"
                   /\ catAfter(id).notes # <<>>
          /\ last' = Step("ValidateDone", id, "complete")
                => /\ Changed(jobState, jobState', id) \subseteq
                         {"status", "missingInfo"}
                   /\ catAfter(id).status = "complete"
                   /\ catAfter(id).missingInfo = <<>>
          /\ last' = Step("ValidateDone", id, "incomplete")
                => Changed(jobState, jobState', id) \subseteq {"missingInfo"}
          /\ (last'.op = "DeleteNote" /\ last'.cat = id)
                => Changed(jobState, jobState', id) \subseteq {"notes", "status"}
          /\ (last'.op \in {"ExtractDone", "ValidateDone", "DeleteNote"}
              /\ last'.cat # id)
                => catAfter(id) = cat_(id)]_vars

\* C22 witness: a note has been added to a category that has a
\* missingInfo list, which the update has kept
C22_Witness ==
    \E id \in CategoryId :
        /\ last = Step("ExtractDone", id, "added")
        /\ cat_(id).missingInfo # <<>>
        /\ cat_(id).status = "in_progress"

\* C23: the completion of a call changes the category the call was made
\* for and no other: whatever calls for other categories are in flight,
\* their categories keep notes, data, status and missingInfo.
C23_CategoriesIndependent ==
    [][\A id \in CategoryId :
          catAfter(id) # cat_(id)
          => last'.cat = id \/ last'.op = "Reset"]_vars

\* C23 witness: a call for one category has completed and changed it while
\* a call for another category is in flight, whose category is as it was
\* when that call started
C23_Witness ==
    \E c \in BagToSet(calls) :
        /\ c.cat \in CategoryId
        /\ last.op \in {"ExtractDone", "ValidateDone"}
        /\ last.out \in {"added", "incomplete"}
        /\ last.cat \in CategoryId \ {c.cat}
        /\ cat_(last.cat) # DoneCategory(last.cat)
        /\ cat_(last.cat) # NewCategory(last.cat)
        /\ cat_(c.cat) = c.snap

\* C24: in every reachable state no two notes of a category have the
\* same id.
C24_NoteIdsUnique ==
    \A id \in CategoryId :
        \A i, j \in 1..Len(cat_(id).notes) :
            i # j => cat_(id).notes[i].id # cat_(id).notes[j].id

\* C25: a delete whose note id is not in the category's list reports
\* NotFound and leaves the category as it was.
C25_UnknownIdIsReported ==
    [][\A noteId \in NoteIds :
          ( /\ handleDeleteNote(noteId)
            /\ \A i \in 1..Len(category.notes) : category.notes[i].id # noteId )
          => /\ last'.out = "NotFound"
             /\ jobState' = jobState]_vars

C27_MissingKeyIssuesNoCall ==
    (gw.op \in GatewayOps /\ missing(gw.apiKey)) => gw.run.attempts = 0

\* C28: the wait before retry k is 1000 * 2^(k-1) ms, each wait the double
\* of the one before; a wait is performed only after an attempt that failed
\* with a rate-limit error, and never after the last attempt made, so an
\* operation that made n attempts waited n - 1 times.
C28_BackoffDoubles ==
    (gw.op \in GatewayOps /\ gw.settled)
    => LET d == gw.run.delays IN
       /\ Len(d) = gw.run.attempts - 1
       /\ Len(d) <= RETRIES - 1
       /\ \A k \in 1..Len(d) :
             /\ d[k] = 1000 * (2 ^ (k - 1))
             /\ k > 1 => d[k] = 2 * d[k - 1]
             /\ RateLimited(gw.script, k)

\* three attempts, all failed on a rate limit: 1000 ms, then 2000 ms, and no
\* wait after the third
C28_Witness ==
    /\ gw.op \in GatewayOps
    /\ gw.settled
    /\ gw.run.threw
    /\ gw.run.attempts = RETRIES
    /\ RateLimited(gw.script, RETRIES)
    /\ gw.run.delays = << 1000, 2000 >>

\* the error has quota or rate-limit wording, or the code 429
QuotaWording(e) ==
    \/ words(e.msg) \cap {"quota", "429", "resource_exhausted",
                          "resource has been exhausted"} # {}
    \/ e.code = 429

NetworkWording(e) == words(e.msg) \cap {"network", "fetch"} # {}

\* C29: every backend error an operation ends on is surfaced as exactly one
\* of three errors: system busy if it has quota or rate-limit wording or
\* code 429; otherwise network error if it mentions network or fetch;
\* otherwise generic processing failure.  The operation never returns a
\* value in that case, and it throws nothing but these three.
C29_ClassifierPrecedence ==
    (gw.op \in GatewayOps /\ gw.settled)
    => /\ gw.run.threw
            => /\ gw.out.threw
               /\ gw.out.message =
                      IF QuotaWording(gw.run.error) THEN MSG_BUSY
                      ELSE IF NetworkWording(gw.run.error) THEN MSG_NETWORK
                      ELSE MSG_FAILED
       /\ gw.out.threw => gw.out.message \in {MSG_BUSY, MSG_NETWORK, MSG_FAILED}

\* an operation ended on an error that is both a rate-limit error and a
\* network error, and reported system busy
C29_Witness ==
    /\ gw.op \in GatewayOps
    /\ gw.settled
    /\ gw.run.threw
    /\ QuotaWording(gw.run.error)
    /\ NetworkWording(gw.run.error)
    /\ gw.out.threw
    /\ gw.out.message = MSG_BUSY

\* C30: the retry wrapper and the error classifier agree on what a
\* rate-limit error is: an operation that reports "system busy" has made
\* all 3 attempts, and an operation that ends on an error the wrapper does
\* not take for a rate-limit error reports a network error or a generic
\* failure.
C30_WrapperAgreesWithClassifier ==
    (gw.op \in GatewayOps /\ gw.settled)
    => /\ (gw.out.threw /\ gw.out.message = MSG_BUSY)
            => gw.run.attempts = RETRIES
       /\ (gw.run.threw /\ ~isRateLimit(gw.run.error))
            => gw.out.message \in {MSG_NETWORK, MSG_FAILED}

\* C31: a note the user has deleted does not come back: the completion of
\* an extraction puts no note into the category's list that was not in it
\* just before, other than the one note it appends at the end.
C31_DeletedNoteStaysDeleted ==
    [][last'.op = "ExtractDone" =>
         LET b == cat_(last'.cat).notes
             a == catAfter(last'.cat).notes
         IN  \A i \in 1..(Len(a) - 1) : Has(b, a[i])]_vars

\* C32: when a finalize makes a category complete, the category the
\* validator was given is the category as it is at that moment: same data,
\* same notes.
C32_VerdictOnCurrentContents ==
    [][( /\ last'.op = "ValidateDone"
         /\ last'.out = "complete"
         /\ cat_(last'.cat).status # "complete" ) =>
         \A c \in BagToSet(calls), r \in ValidateResults :
             ValidateDone(c, r) =>
                 /\ c.snap.data = cat_(c.cat).data
                 /\ c.snap.notes = cat_(c.cat).notes]_vars

\* C33: a call started before a reset does not change the state after it:
\* when an extract or validate call settles right after the reset, before
\* any new user action, JobState is still the eight-category default.
C33_ResetIsNotUndone ==
    [][( /\ last.op = "Reset"
         /\ last'.op \in {"ExtractDone", "ValidateDone"} )
       => jobState' = INITIAL_JOB_STATE]_vars

\* C34: the view leaves the report only by a reset
C34_ReportStaysUntilReset ==
    [][(view = "report" /\ view' # "report") => last'.op = "Reset"]_vars

\* C35: whenever the view is the report a report is stored, and whenever
\* the view is a category an active category is selected.
C35_ViewHasItsContent ==
    /\ view = "report" => finalReport # NULL
    /\ view = "category" => activeCategory # NULL

\* C36: a delete changes nothing of the category but its notes and, when
\* it removes the last note of a category that is not complete, its
\* status: id, data and missingInfo are as before, the notes left are notes
\* of the list before, fewer, in the order they had, and every other
\* category is as before.
C36_DeleteFrame ==
    [][last'.op = "DeleteNote" =>
         LET b == cat_(last'.cat)
             a == catAfter(last'.cat)
         IN  /\ a.id = b.id
             /\ a.data = b.data
             /\ a.missingInfo = b.missingInfo
             /\ Len(a.notes) < Len(b.notes)
             /\ a.notes = SelectSeq(b.notes, LAMBDA n : Has(a.notes, n))
             /\ a.status # b.status
                   => /\ a.notes = << >>
                      /\ b.status # "complete"
                      /\ a.status = "not_started"
             /\ \A id \in CategoryId \ {last'.cat} : catAfter(id) = cat_(id)]_vars

\* a delete has left two different notes behind, in a category that has
\* data
C36_Witness ==
    \E id \in Worked :
        /\ last.op = "DeleteNote"
        /\ last.cat = id
        /\ Len(cat_(id).notes) >= 2
        /\ cat_(id).notes[1] # cat_(id).notes[2]
        /\ cat_(id).data # EmptyData

\* the calls of kind k in flight
Running(k) == { c \in BagToSet(calls) : c.kind = k }

\* the call c is in flight before the step and one copy fewer of it after
SettledNow(c) == CopiesIn(c, calls') < CopiesIn(c, calls)

\* C37: every started extract, validate and aggregate operation settles,
\* after 1 to 3 backend attempts whatever the backend answers, and in the
\* step in which it settles the pending flag of the view that started it
\* is false again, whatever the outcome: note added, no content, verdict,
\* report, or error.
C37_SettlesAndClearsFlag ==
    /\ \A op \in GatewayOps : \A s \in Scripts(BodiesOf(op)) :
           callWithRetry(s, RETRIES).attempts \in 1..RETRIES
    /\ \A k \in {"extract", "validate", "aggregate"} :
           (Running(k) # {}) ~> (Running(k) = {})
    /\ [][/\ last'.op = "ExtractDone" =>
               \A c \in Running("extract") :
                   (c.live /\ SettledNow(c)) => ~cv'.isProcessing
          /\ last'.op = "ValidateDone" =>
               \A c \in Running("validate") :
                   (c.live /\ SettledNow(c)) => ~cv'.isValidating
          /\ last'.op = "AggregateDone" => ~isGeneratingReport']_vars

\* an extraction has failed and the view that started it, still open, is
\* no longer processing
C37_Witness ==
    /\ last.op = "ExtractDone"
    /\ last.out = "failed"
    /\ Mounted
    /\ activeCategory = last.cat
    /\ ~cv.isProcessing
    /\ Running("extract") = {}
====
